---- MODULE Spec2Model ----
(***************************************************************************)
(* A model of whackerhero.py: the MIDI note extractor, the Color value     *)
(* type, the antialiased rectangle rasterizer and the scene Painter with   *)
(* its timestamp-tagged mask cache.                                        *)
(*                                                                         *)
(* Python's float is IEEE-754 binary64.  The program truncates the results *)
(* of float arithmetic to integers (int(), the uint8 cast of numpy), so    *)
(* the rounding of every operation is observable.  Floats are therefore    *)
(* modelled bit-exactly: a finite float is s * m * 2^e with a 53-bit       *)
(* mantissa m kept as a little-endian sequence of base-2^15 digits, and    *)
(* every operation rounds to nearest, ties to even, overflows to an        *)
(* infinity above the largest float and rounds to a multiple of 2^-1074    *)
(* among the subnormals.                                                   *)
(***************************************************************************)
EXTENDS Integers, Sequences, FiniteSets, TLC

-----------------------------------------------------------------------------
(* Python computes the value of an argument before the call, and computes  *)
(* it once.  Every function of the program, and every float operation, is  *)
(* a case of Call, which is applied to the values of the arguments; the    *)
(* operator that carries the function's name applies Call, and the         *)
(* operator named <name>_body is the function's body.  Call is defined     *)
(* after the bodies.                                                       *)

RECURSIVE Call(_, _)

\* The value v, computed: of a function [x \in S |-> e], every e
Eval(v) == CHOOSE r \in {v} : r = v

\* Op(a), a computed first
Apply1(Op(_), a) == CHOOSE r \in {Op(x) : x \in {a}} : TRUE

-----------------------------------------------------------------------------
(* Natural numbers of any size: little-endian digit sequences, no leading  *)
(* zero digit, << >> is 0.                                                 *)

Base == 2^15

RECURSIVE BN(_)
BN(n) == IF n = 0 THEN << >> ELSE <<n % Base>> \o BN(n \div Base)

RECURSIVE BTrim(_)
BTrim(a) ==
    IF a = << >> THEN a
    ELSE IF a[Len(a)] = 0 THEN BTrim(SubSeq(a, 1, Len(a) - 1)) ELSE a

Dig(a, i) == IF i <= Len(a) THEN a[i] ELSE 0

Rest(a) == IF a = << >> THEN << >> ELSE Tail(a)

RECURSIVE BAddC(_, _, _)
BAddC(a, b, c) ==
    IF a = << >> /\ b = << >> THEN (IF c = 0 THEN << >> ELSE <<c>>)
    ELSE LET s == Dig(a, 1) + Dig(b, 1) + c
         IN  <<s % Base>> \o BAddC(Rest(a), Rest(b), s \div Base)

BAdd(a, b) == BTrim(BAddC(a, b, 0))

RECURSIVE BSubB(_, _, _)
BSubB(a, b, br) ==
    IF a = << >> THEN << >>
    ELSE LET d == a[1] - Dig(b, 1) - br
         IN  <<d % Base>> \o BSubB(Tail(a), Rest(b), IF d < 0 THEN 1 ELSE 0)

\* a - b for a >= b
BSub(a, b) == BTrim(BSubB(a, b, 0))

RECURSIVE BCmpAt(_, _, _)
BCmpAt(a, b, i) ==
    IF i = 0 THEN 0
    ELSE IF a[i] > b[i] THEN 1
    ELSE IF a[i] < b[i] THEN -1
    ELSE BCmpAt(a, b, i - 1)

\* -1, 0, 1 as a < b, a = b, a > b
BCmp(a, b) ==
    IF Len(a) > Len(b) THEN 1
    ELSE IF Len(a) < Len(b) THEN -1
    ELSE BCmpAt(a, b, Len(a))

RECURSIVE BMulD(_, _, _)
BMulD(a, d, c) ==
    IF a = << >> THEN (IF c = 0 THEN << >> ELSE <<c>>)
    ELSE LET p == a[1] * d + c
         IN  <<p % Base>> \o BMulD(Tail(a), d, p \div Base)

RECURSIVE BMulR(_, _)
BMulR(a, b) ==
    IF b = << >> THEN << >>
    ELSE BAddC(BMulD(a, b[1], 0), <<0>> \o BMulR(a, Tail(b)), 0)

BMul(a, b) == BTrim(BMulR(a, b))

\* a * 2^k
BShl(a, k) ==
    IF a = << >> THEN a
    ELSE [i \in 1..(k \div 15) |-> 0] \o BMulD(a, 2^(k % 15), 0)

\* a \div 2^k
BShr(a, k) ==
    LET q == k \div 15
        r == k % 15
        t == IF q >= Len(a) THEN << >> ELSE SubSeq(a, q + 1, Len(a))
    IN  BTrim(Eval([i \in 1..Len(t) |->
                 (t[i] \div 2^r) + (Dig(t, i + 1) % 2^r) * 2^(15 - r)]))

\* the low k bits of a are all zero
BLowZero(a, k) ==
    /\ \A i \in 1..(k \div 15) : Dig(a, i) = 0
    /\ Dig(a, k \div 15 + 1) % 2^(k % 15) = 0

\* bit i of a, bit 0 the lowest
BBit(a, i) == (Dig(a, i \div 15 + 1) \div 2^(i % 15)) % 2

RECURSIVE Bits(_)
Bits(n) == IF n = 0 THEN 0 ELSE 1 + Bits(n \div 2)

BBitLen(a) == IF a = << >> THEN 0 ELSE 15 * (Len(a) - 1) + Bits(a[Len(a)])

RECURSIVE BToInt(_)
BToInt(a) == IF a = << >> THEN 0 ELSE a[1] + Base * BToInt(Tail(a))

-----------------------------------------------------------------------------
(* binary64 values.  k is "fin", "inf" or "nan"; a finite value is         *)
(* s * m * 2^e, m = << >> for zero (s = 1, e = 0), else 2^52 <= m < 2^53   *)
(* (a subnormal is held the same way: its low bits are zero).              *)
(* The sign of zero is not kept: the program never observes it.            *)

FZero == [k |-> "fin", s |-> 1, m |-> << >>, e |-> 0]
FNaN == [k |-> "nan", s |-> 1, m |-> << >>, e |-> 0]
FInf(s) == [k |-> "inf", s |-> s, m |-> << >>, e |-> 0]

IsZero(x) == x.k = "fin" /\ x.m = << >>

\* The exponent of the lowest bit of the largest floats (they are below
\* 2^1024) and of the subnormals
EMax == 971
EMin == -1074

\* The float s * q * 2^e, for q below 2^54 that fits a mantissa; an infinity
\* at 2^1024 and above
Normal(s, q, e) ==
    IF q = << >> THEN FZero
    ELSE LET L == BBitLen(q)
             m == IF L = 54 THEN BShr(q, 1) ELSE BShl(q, 53 - L)
         IN  IF e - (53 - L) > EMax THEN FInf(s)
             ELSE [k |-> "fin", s |-> s, m |-> m, e |-> e - (53 - L)]

\* s * N * 2^e (plus, if sticky, a nonzero amount below N's last bit; then
\* N has more than 54 bits) rounded to nearest, ties to even
FRound_body(s, N, e, sticky) ==
    IF N = << >> THEN FZero
    ELSE LET L == BBitLen(N)
             sh == IF EMin - e > L - 53 THEN EMin - e ELSE L - 53
         IN
         IF sh <= 0 THEN Normal(s, N, e)
         ELSE LET q == BShr(N, sh)
                  up == /\ BBit(N, sh - 1) = 1
                        /\ \/ sticky
                           \/ ~BLowZero(N, sh - 1)
                           \/ BBit(q, 0) = 1
                  q1 == IF up THEN BAdd(q, <<1>>) ELSE q
              IN  Normal(s, q1, e + sh)

FRound(s, N, e, sticky) == Call("FRound", <<s, N, e, sticky>>)

\* float(n) of a Python int
FromInt_body(n) == FRound(IF n < 0 THEN -1 ELSE 1, BN(IF n < 0 THEN -n ELSE n), 0, FALSE)

FromInt(n) == Call("FromInt", <<n>>)

FNeg(x) == IF IsZero(x) \/ x.k = "nan" THEN x ELSE [x EXCEPT !.s = -x.s]

\* x + y.  A float more than 55 binades below another is less than a quarter
\* of the other's last bit: their sum rounds to the other.
FAdd_body(x, y) ==
    IF x.k = "nan" \/ y.k = "nan" THEN FNaN
    ELSE IF x.k = "inf" THEN (IF y.k = "inf" /\ y.s # x.s THEN FNaN ELSE x)
    ELSE IF y.k = "inf" THEN y
    ELSE IF IsZero(x) THEN y
    ELSE IF IsZero(y) THEN x
    ELSE IF x.e - y.e > 55 THEN x
    ELSE IF y.e - x.e > 55 THEN y
    ELSE LET e == IF x.e < y.e THEN x.e ELSE y.e
             X == BShl(x.m, x.e - e)
             Y == BShl(y.m, y.e - e)
             c == BCmp(X, Y)
         IN  IF x.s = y.s THEN FRound(x.s, BAdd(X, Y), e, FALSE)
             ELSE IF c = 0 THEN FZero
             ELSE IF c > 0 THEN FRound(x.s, BSub(X, Y), e, FALSE)
             ELSE FRound(y.s, BSub(Y, X), e, FALSE)

FAdd(x, y) == Call("FAdd", <<x, y>>)

FSub(x, y) == FAdd(x, FNeg(y))

FMul_body(x, y) ==
    IF x.k = "nan" \/ y.k = "nan" THEN FNaN
    ELSE IF x.k = "inf" \/ y.k = "inf"
    THEN (IF IsZero(x) \/ IsZero(y) THEN FNaN ELSE FInf(x.s * y.s))
    ELSE IF IsZero(x) \/ IsZero(y) THEN FZero
    ELSE FRound(x.s * y.s, BMul(x.m, y.m), x.e + y.e, FALSE)

FMul(x, y) == Call("FMul", <<x, y>>)

\* A C library, as far as x ** 2 goes: pow rounds to libm.default, but for
\* the x in libm.flip to the other side
PowRounds(x, libm) ==
    IF x \in libm.flip THEN (IF libm.default = "up" THEN "down" ELSE "up")
    ELSE libm.default

RoundsDown == [default |-> "down", flip |-> {}]
RoundsUp == [default |-> "up", flip |-> {}]

\* What float.__pow__ gives in place of a float when it raises
\* OverflowError
FOverflowError == [k |-> "OverflowError", s |-> 1, m |-> << >>, e |-> 0]

\* x ** 2 of a float x, float.__pow__: the pow of the C library, which is
\* not correctly rounded.  A square that is a float is returned as it is;
\* one that is not comes out as one of the two floats around it, the one
\* below ("down") or the one above ("up"), and which one is the library's.
\* A finite x whose square is an infinity raises OverflowError.
FPow2_body(x, libm) ==
    IF x.k = "nan" THEN FNaN
    ELSE IF x.k = "inf" THEN FInf(1)
    ELSE IF IsZero(x) THEN FZero
    ELSE LET N == BMul(x.m, x.m)
             L == BBitLen(N)
             sh == IF EMin - 2 * x.e > L - 53 THEN EMin - 2 * x.e ELSE L - 53
             q == BShr(N, sh)
             q1 == IF PowRounds(x, libm) = "up" THEN BAdd(q, <<1>>) ELSE q
             p == IF sh <= 0 \/ BLowZero(N, sh) THEN FRound(1, N, 2 * x.e, FALSE)
                  ELSE Normal(1, q1, 2 * x.e + sh)
         IN  IF p.k = "inf" THEN FOverflowError ELSE p

FPow2(x, libm) == Call("FPow2", <<x, libm>>)

\* The long division of r by d (both below 2^54, held as <<hi, lo>> for
\* hi * 2^30 + lo, r < 2 * d).  One step of it: <<rh, rl, <<bit>>>>, the
\* doubled new remainder and the quotient bit
DivStep(r, d) ==
    IF r[1] > d[1] \/ (r[1] = d[1] /\ r[2] >= d[2])
    THEN LET bw == IF r[2] >= d[2] THEN 0 ELSE 1
             sl == r[2] - d[2] + bw * 2^30
             sh == r[1] - d[1] - bw
         IN  <<2 * sh + (2 * sl) \div 2^30, (2 * sl) % 2^30, <<1>> >>
    ELSE <<2 * r[1] + (2 * r[2]) \div 2^30, (2 * r[2]) % 2^30, <<0>> >>

\* n steps from the remainder r: <<rh, rl, the n quotient bits>>.  The first
\* half of the steps, then the other half from the remainder they leave;
\* when that remainder is 0 all further bits are 0.
RECURSIVE DivRun(_, _, _)
DivRun(r, d, n) ==
    IF n = 1 THEN DivStep(r, d)
    ELSE LET a == DivRun(r, d, n \div 2)
         IN  IF a[1] = 0 /\ a[2] = 0
             THEN <<0, 0, a[3] \o [i \in 1..(n - n \div 2) |-> 0]>>
             ELSE LET b == DivRun(a, d, n - n \div 2)
                  IN  <<b[1], b[2], a[3] \o b[3]>>

\* The next n quotient bits, highest first, followed by 1 if a remainder is
\* left and 0 if not
DivBits(r, d, n) ==
    LET z == DivRun(r, d, n)
    IN  z[3] \o <<IF z[1] = 0 /\ z[2] = 0 THEN 0 ELSE 1>>

\* The number whose bits, highest first, are b[1..n]
RECURSIVE DigitOf(_, _, _)
DigitOf(b, lo, hi) ==
    IF hi < lo THEN 0 ELSE b[hi] + 2 * DigitOf(b, lo, hi - 1)

FromBits(b, n) ==
    BTrim(Eval([j \in 1..((n + 14) \div 15) |->
             DigitOf(b, IF n - 15 * j + 1 < 1 THEN 1 ELSE n - 15 * j + 1,
                     n - 15 * (j - 1))]))

Lo30(m) == Dig(m, 1) + Base * Dig(m, 2)
Hi30(m) == Dig(m, 3) + Base * Dig(m, 4)

\* x / y for y other than zero
FDiv_body(x, y) ==
    IF x.k = "nan" \/ y.k = "nan" THEN FNaN
    ELSE IF x.k = "inf" THEN (IF y.k = "inf" THEN FNaN ELSE FInf(x.s * y.s))
    ELSE IF y.k = "inf" \/ IsZero(x) THEN FZero
    ELSE LET d == DivBits(<<Hi30(x.m), Lo30(x.m)>>, <<Hi30(y.m), Lo30(y.m)>>, 57)
         IN  FRound(x.s * y.s, FromBits(d, 57), x.e - y.e - 56, d[58] = 1)

FDiv(x, y) == Call("FDiv", <<x, y>>)

\* -1, 0, 1 as |x| < |y|, |x| = |y|, |x| > |y| (finite values)
FMagCmp(x, y) ==
    IF IsZero(x) THEN (IF IsZero(y) THEN 0 ELSE -1)
    ELSE IF IsZero(y) THEN 1
    ELSE IF x.e > y.e THEN 1
    ELSE IF x.e < y.e THEN -1
    ELSE BCmp(x.m, y.m)

\* -1, 0, 1 as x < y, x == y, x > y; 2 when one of them is nan, which is
\* neither below, equal to nor above anything
FCmp_body(x, y) ==
    LET sx == IF IsZero(x) THEN 0 ELSE x.s
        sy == IF IsZero(y) THEN 0 ELSE y.s
    IN  IF x.k = "nan" \/ y.k = "nan" THEN 2
        ELSE IF sx # sy THEN (IF sx < sy THEN -1 ELSE 1)
        ELSE IF sx = 0 THEN 0
        ELSE IF x.k = "inf" THEN (IF y.k = "inf" THEN 0 ELSE sx)
        ELSE IF y.k = "inf" THEN -sx
        ELSE sx * FMagCmp(x, y)

FCmp(x, y) == Call("FCmp", <<x, y>>)

FLt(x, y) == FCmp(x, y) < 0
FLe(x, y) == FCmp(x, y) <= 0

\* x != y
FNe(x, y) == FCmp(x, y) # 0

\* the value is a whole number
FIsInt(x) == IsZero(x) \/ x.e >= 0 \/ BLowZero(x.m, -x.e)

\* The exception int(x) and math.ceil(x) raise, "none" for a finite x
IntError(x) ==
    IF x.k = "inf" THEN "OverflowError"
    ELSE IF x.k = "nan" THEN "ValueError"
    ELSE "none"

\* int(x): truncation toward zero; the name of the exception where it raises
FTrunc_body(x) ==
    IF x.k # "fin" THEN IntError(x)
    ELSE IF IsZero(x) THEN 0
    ELSE IF x.e >= 0 THEN x.s * BToInt(BShl(x.m, x.e))
    ELSE x.s * BToInt(BShr(x.m, -x.e))

FTrunc(x) == Call("FTrunc", <<x>>)

\* math.ceil(x), an int
FCeil_body(x) == IF FIsInt(x) \/ x.s < 0 THEN FTrunc(x) ELSE FTrunc(x) + 1

FCeil(x) == Call("FCeil", <<x>>)

\* the float a decimal literal n/d of the source denotes
Lit(n, d) == FDiv(FromInt(n), FromInt(d))

-----------------------------------------------------------------------------
(* Module constants of whackerhero.py                                      *)

BOTTOM_MARGIN == Lit(2, 10)
FONT_HEIGHT == Lit(3, 10)
HIT_EFFECT_COLOR == <<255, 255, 255>>
HIT_EFFECT_TIME == 1
HIT_LINE_COLOR == <<255, 255, 255>>
LINE_OPACITY == 180
LINE_WIDTH == Lit(5, 100)
NOTE_WIDTH == Lit(3, 10)
SIDE_MARGIN == Lit(5, 100)
OPAQUE == 255

-----------------------------------------------------------------------------
(* Color: a tuple <<r, g, b, a>> of Python ints                            *)

One == FromInt(1)

\* Color(r, g, b, a) of four floats: "make sure all values are int"
Color(r, g, b, a) == <<FTrunc(r), FTrunc(g), FTrunc(b), FTrunc(a)>>

\* Color.opacity(a), a a float
opacity(self, a) == <<self[1], self[2], self[3], FTrunc(a)>>

\* other.a / 255 + self.a / 255 * (1 - other.a / 255)
BlendAlpha_body(self, other) ==
    LET a1 == FDiv(FromInt(other[4]), FromInt(255))
        a2 == FDiv(FromInt(self[4]), FromInt(255))
    IN  FAdd(a1, FMul(a2, FSub(One, a1)))

BlendAlpha(self, other) == Call("BlendAlpha", <<self, other>>)

\* Color.blend(other): the blended Color, or the exception the division by
\* ao raises
blend_body(self, other) ==
    LET a1 == FDiv(FromInt(other[4]), FromInt(255))
        a2 == FDiv(FromInt(self[4]), FromInt(255))
        ao == BlendAlpha(self, other)
        ch(c) == FDiv(FAdd(FMul(FromInt(other[c]), a1),
                           FMul(FMul(FromInt(self[c]), a2), FSub(One, a1))), ao)
    IN  IF IsZero(ao) THEN [error |-> "ZeroDivisionError", color |-> self]
        ELSE [error |-> "none", color |-> Color(ch(1), ch(2), ch(3), FMul(ao, FromInt(255)))]

blend(self, other) == Call("blend", <<self, other>>)

-----------------------------------------------------------------------------
(* AntialiasedDraw on an image arr: arr[y][x] = <<r, g, b, a>>, uint8 each, *)
(* rows 0..height-1 from the top, columns 0..width-1.                       *)

\* np.zeros((height, width, 4), np.uint8), every pixel px instead of zeros
Image(h, w, px) == Eval([y \in 0..(h - 1) |-> [x \in 0..(w - 1) |-> px]])

\* What the store of a float64 into the uint8 image leaves.  Within 0..255
\* the value is truncated.  Outside, the C conversion is undefined and the
\* builds differ: cast = "wrap" keeps the low byte of the 32-bit integer
\* conversion (x86), cast = "saturate" clamps (ARM).  nan gives 0 on both.
CastUint8(x, cast) ==
    IF x.k = "nan" THEN 0
    ELSE IF x.k = "inf" \/ (~IsZero(x) /\ x.e + 53 > 31)
    THEN (IF cast = "saturate" /\ x.s > 0 THEN 255 ELSE 0)
    ELSE LET n == FTrunc(x)
         IN  IF 0 <= n /\ n <= 255 THEN n
             ELSE IF cast = "wrap" THEN n % 256
             ELSE IF n < 0 THEN 0 ELSE 255

\* numpy's x / y: a zero divisor gives nan or inf (and a warning), no exception
NpDiv(x, y) ==
    IF IsZero(y) THEN (IF IsZero(x) \/ x.k = "nan" THEN FNaN ELSE FInf(x.s))
    ELSE FDiv(x, y)

\* The alpha compositing of color over one pixel px
OverPixel_body(color, px, cast) ==
    LET a1 == FDiv(FromInt(color[4]), FromInt(255))
        a2 == FDiv(FromInt(px[4]), FromInt(255))
        ao == FAdd(a1, FMul(a2, FSub(One, a1)))
        co(c) == NpDiv(FAdd(FMul(FromInt(color[c]), a1),
                            FMul(FMul(FromInt(px[c]), a2), FSub(One, a1))), ao)
    IN  <<CastUint8(co(1), cast), CastUint8(co(2), cast), CastUint8(co(3), cast),
          CastUint8(FMul(ao, FromInt(255)), cast)>>

OverPixel(color, px, cast) == Call("OverPixel", <<color, px, cast>>)

\* Where the bound i of a slice falls in an axis of n items: a negative i
\* counts from the end, and what is still outside is clipped to 0..n
SliceIndex(i, n) ==
    LET j == IF i < 0 THEN i + n ELSE i
    IN  IF j < 0 THEN 0 ELSE IF j > n THEN n ELSE j

\* The indices an axis of n items has in the slice [lo:hi]
Slice(lo, hi, n) == {i \in 0..(n - 1) : SliceIndex(lo, n) <= i /\ i < SliceIndex(hi, n)}

\* AntialiasedDraw.over: color over arr[top:bottom, left:right]
over_body(arr, top, bottom, left, right, color, cast) ==
    LET rows == Slice(top, bottom, Cardinality(DOMAIN arr))
        region == UNION {{y} \X Slice(left, right, Cardinality(DOMAIN arr[y])) :
                           y \in rows}
        new == Eval([px \in {arr[p[1]][p[2]] : p \in region} |->
                       IF color[4] = OPAQUE THEN color ELSE OverPixel(color, px, cast)])
    IN  Eval([y \in DOMAIN arr |-> [x \in DOMAIN arr[y] |->
            IF <<y, x>> \in region THEN new[arr[y][x]] ELSE arr[y][x]]])

over(arr, top, bottom, left, right, color, cast) == Call("over", <<arr, top, bottom, left, right, color, cast>>)

\* min(1, x) and max(0, x) of a float x
Min1(x) == IF FLt(x, One) THEN x ELSE One
Max0(x) == IF FLt(FZero, x) THEN x ELSE FZero
Max0Int(n) == IF n > 0 THEN n ELSE 0

\* rectangle, `if (right - left) < 1`
Thin(left, right) == FLt(FSub(right, left), One)

\* rectangle: the Color it draws with, dimmed when thinner than 1 px
ThinColor(left, right, color) ==
    IF Thin(left, right)
    THEN opacity(color, FMul(Min1(FSub(right, left)), FromInt(color[4])))
    ELSE color

\* The first exception the int() and ceil() of rectangle raise, on a
\* coordinate that is not finite; "none" when they raise none.  They all
\* come before the first call of over.
RectError_body(left, top, right, bottom, color) ==
    LET right1 == IF Thin(left, right) THEN FAdd(left, One) ELSE right
        ints == << IF Thin(left, right)
                   THEN FMul(Min1(FSub(right, left)), FromInt(color[4]))
                   ELSE FZero,
                   left, right1, Max0(top), Max0(bottom) >>
        bad == {i \in 1..Len(ints) : IntError(ints[i]) # "none"}
    IN  IF bad = {} THEN "none"
        ELSE IntError(ints[CHOOSE i \in bad : \A j \in bad : i <= j])

RectError(left, top, right, bottom, color) == Call("RectError", <<left, top, right, bottom, color>>)

\* The calls of over that rectangle(left, top, right, bottom, color) makes,
\* in order: <<top, bottom, left, right, color>> each
RectCalls_body(left0, top0, right0, bottom0, color0) ==
    LET thin == Thin(left0, right0)
        color == ThinColor(left0, right0, color0)
        right1 == IF thin THEN FAdd(left0, One) ELSE right0
        top == Max0(top0)
        bottom == Max0(bottom0)
        left == Max0Int(FTrunc(left0))
        right == Max0Int(FTrunc(right1))
        outer_top == FTrunc(top)
        inner_top == FCeil(top)
        inner_bottom == FTrunc(bottom)
        outer_bottom == FCeil(bottom)
        top_alpha == FSub(One, FSub(top, FromInt(outer_top)))
        bottom_alpha == FSub(One, FSub(FromInt(outer_bottom), bottom))
        a == FromInt(color[4])
        body == IF inner_bottom - inner_top > 0
                THEN <<<<inner_top, inner_bottom, left, right, color>>>>
                ELSE << >>
        fringe == IF outer_bottom - outer_top > 1
                  THEN << <<outer_top, inner_top, left, right,
                            opacity(color, FMul(top_alpha, a))>>,
                          <<inner_bottom, outer_bottom, left, right,
                            opacity(color, FMul(bottom_alpha, a))>> >>
                  ELSE << <<outer_top, outer_bottom, left, right,
                            opacity(color, FMul(Min1(FAdd(top_alpha, bottom_alpha)), a))>> >>
    IN  IF outer_top = outer_bottom THEN << >> ELSE body \o fringe

RectCalls(left0, top0, right0, bottom0, color0) == Call("RectCalls", <<left0, top0, right0, bottom0, color0>>)

\* The Colors rectangle derives, other than equal to the one it is given:
\* the one dimmed for a width under 1 px, which it derives before it returns
\* for a height of no row and before an int() or ceil() of a coordinate
\* raises, and the ones of the top and bottom fringes
RectDerived_body(left, top, right, bottom, color) ==
    LET calls == RectCalls(left, top, right, bottom, color)
        dimmed ==
            IF Thin(left, right)
               /\ IntError(FMul(Min1(FSub(right, left)), FromInt(color[4]))) = "none"
            THEN {ThinColor(left, right, color)}
            ELSE {}
    IN  IF RectError(left, top, right, bottom, color) # "none"
        THEN dimmed \ {color}
        ELSE ({ThinColor(left, right, color)}
                \cup {calls[i][5] : i \in 1..Len(calls)}) \ {color}

RectDerived(left, top, right, bottom, color) == Call("RectDerived", <<left, top, right, bottom, color>>)

RECURSIVE OverAll(_, _, _)
OverAll(arr, calls, cast) ==
    IF calls = << >> THEN arr
    ELSE LET c == Head(calls)
         IN  Apply1(LAMBDA a : OverAll(a, Tail(calls), cast),
                    over(arr, c[1], c[2], c[3], c[4], c[5], cast))

\* AntialiasedDraw.rectangle: the image it leaves
rectangle_body(arr, left, top, right, bottom, color, cast) ==
    IF RectError(left, top, right, bottom, color) # "none" THEN arr
    ELSE OverAll(arr, RectCalls(left, top, right, bottom, color), cast)

rectangle(arr, left, top, right, bottom, color, cast) == Call("rectangle", <<arr, left, top, right, bottom, color, cast>>)

\* AntialiasedDraw.vline, hline, box
vline(arr, center, top, bottom, w, color, cast) ==
    rectangle(arr, FSub(center, FDiv(w, FromInt(2))), top,
              FAdd(center, FDiv(w, FromInt(2))), bottom, color, cast)

hline(arr, center, left, right, w, color, cast) ==
    rectangle(arr, left, FSub(center, FDiv(w, FromInt(2))), right,
              FAdd(center, FDiv(w, FromInt(2))), color, cast)

box(arr, x, y, w, h, color, cast) ==
    rectangle(arr, FSub(x, FDiv(w, FromInt(2))), FSub(y, FDiv(h, FromInt(2))),
              FAdd(x, FDiv(w, FromInt(2))), FAdd(y, FDiv(h, FromInt(2))), color, cast)

\* AntialiasedDraw.flatten: replace alpha channel with black
flatten_body(arr) ==
    Eval([y \in DOMAIN arr |-> [x \in DOMAIN arr[y] |->
        LET px == arr[y][x]
            d(c) == IF 255 - px[4] < px[c] THEN 255 - px[4] ELSE px[c]
        IN  <<px[1] - d(1), px[2] - d(2), px[3] - d(3), px[4]>>]])

flatten(arr) == Call("flatten", <<arr>>)

\* The names of KEYS, in order
Letters == <<"C", "C#", "D", "D#", "E", "F", "F#", "G", "G#", "A", "A#", "B">>

\* The letters of the black keys
Sharps == {"C#", "D#", "F#", "G#", "A#"}

\* What Pillow rasterizes for a letter with anchor 'mm' is data of the font
\* file and of the rasterizer, neither of them in the source: the coverage
\* of the pixels of the glyph, 0..255 each, in rows, and where its top left
\* pixel is from the anchor.  Two tables stand for this input.  The glyphs of
\* a TrueType font at a size of one pixel: a single pixel, covered in part
SmallGlyphs ==
    [l \in {Letters[i] : i \in DOMAIN Letters} |->
        [dx |-> 0, dy |-> 0, mask |-> << <<IF l \in Sharps THEN 255 ELSE 128>> >>]]

\* The glyphs of the font of ImageFont.load_default(), of a size of its own:
\* three rows, with a wider glyph for the sharps
DefaultGlyphs ==
    [l \in {Letters[i] : i \in DOMAIN Letters} |->
        IF l \in Sharps
        THEN [dx |-> -1, dy |-> -2,
              mask |-> << <<255, 0, 128>>, <<255, 255, 0>>, <<255, 64, 255>> >>]
        ELSE [dx |-> -1, dy |-> -2,
              mask |-> << <<255, 128>>, <<255, 0>>, <<255, 255>> >>]]

\* Pillow and the fonts of the machine (an input of the program):
\*   truetype  for every font file ImageFont.truetype can open, the glyphs
\*             at each size
\*   default   the glyphs of the font of ImageFont.load_default()
\*   size0     what ImageFont.truetype raises for a size of 0: "ValueError"
\*             where Pillow checks the size before it opens the file,
\*             "OSError" where the size reaches FreeType, which refuses it
\* A Pillow that checks sizes, on a machine with none of the fonts
SizeCheckingPillow ==
    [size0 |-> "ValueError", default |-> DefaultGlyphs,
     truetype |-> [f \in {} |-> [n \in {} |-> SmallGlyphs]]]

\* A Pillow that leaves sizes to FreeType, on a machine with DejaVuSans.ttf
FreeTypePillow ==
    [size0 |-> "OSError", default |-> DefaultGlyphs,
     truetype |-> [f \in {"DejaVuSans.ttf"} |-> [n \in {1} |-> SmallGlyphs]]]

Pillows == {SizeCheckingPillow, FreeTypePillow}

\* ImageFont.truetype(f, size=size): the font, or the exception raised
truetype(pil, f, size) ==
    IF size <= 0 THEN [error |-> pil.size0]
    ELSE IF f \notin DOMAIN pil.truetype THEN [error |-> "OSError"]
    ELSE [error |-> "none",
          font |-> [name |-> f, size |-> size, glyphs |-> pil.truetype[f][size]]]

\* ImageFont.load_default()
load_default(pil) == [name |-> "default", size |-> 0, glyphs |-> pil.default]

\* font.getmask2(letter, anchor='mm'): the glyph of the letter in the font
Glyph(font, letter) == font.glyphs[letter]

\* Pillow's BLEND8(mask, in1, in2): (in1 * (255 - mask) + in2 * mask) / 255,
\* rounded
Blend8(mask, in1, in2) ==
    LET tmp == in1 * (255 - mask) + in2 * mask + 128
    IN  ((tmp \div 256) + tmp) \div 256

\* AntialiasedDraw.text(xy, text, fill, font): ImageDraw.text at
\* [int(n) for n in xy] fills the glyph with the color `fill` through its
\* coverage; over a pixel of alpha 0 the color channels are replaced, not
\* mixed.  Pixels outside the image are dropped.
text_body(arr, xy, letter, fill, font) ==
    LET g == Glyph(font, letter)
        x0 == FTrunc(xy[1]) + g.dx
        y0 == FTrunc(xy[2]) + g.dy
        Cover(y, x) ==
            IF /\ y - y0 \in 0..(Len(g.mask) - 1)
               /\ x - x0 \in 0..(Len(g.mask[1]) - 1)
            THEN g.mask[y - y0 + 1][x - x0 + 1]
            ELSE 0
    IN  Eval([y \in DOMAIN arr |-> [x \in DOMAIN arr[y] |->
            LET px == arr[y][x]
                mk == Cover(y, x)
                cm == IF px[4] = 0 THEN 255 ELSE mk
            IN  IF mk = 0 THEN px
                ELSE <<Blend8(cm, px[1], fill[1]), Blend8(cm, px[2], fill[2]),
                       Blend8(cm, px[3], fill[3]), Blend8(mk, px[4], fill[4])>>]])

text(arr, xy, letter, fill, font) == Call("text", <<arr, xy, letter, fill, font>>)

-----------------------------------------------------------------------------
(* Note extraction: the message loop of Painter.__init__                   *)

\* A MIDI message as mido yields it: type, note (the key) and time, the
\* seconds since the previous message.
Msg(type, note, time) == [type |-> type, note |-> note, time |-> time]

Note(key, start, stop) == [key |-> key, start |-> start, stop |-> stop]

\* The loop's state before the first message
ExtractStart == [total_sec |-> FZero, pressed_keys |-> << >>, notes |-> << >>]

\* A variant that forgets to release the key when its note is saved
OnNoteOffKeepsKey(st, m) ==
    IF m.note \in DOMAIN st.pressed_keys
    THEN [st EXCEPT !.notes = Append(@, Note(m.note, st.pressed_keys[m.note],
                                             st.total_sec))]
    ELSE st

\* if msg.type == 'note_off': save a note when a key is released
OnNoteOff(st, m) ==
    IF m.note \in DOMAIN st.pressed_keys
    THEN [st EXCEPT
            !.notes = Append(@, Note(m.note, st.pressed_keys[m.note], st.total_sec)),
            !.pressed_keys = [k \in DOMAIN st.pressed_keys \ {m.note} |->
                                st.pressed_keys[k]]]
    ELSE st

\* A variant that restarts a key that is already held
OnNoteOnRetriggers(st, m) ==
    [st EXCEPT !.pressed_keys =
        [k \in DOMAIN st.pressed_keys \cup {m.note} |->
            IF k = m.note THEN st.total_sec ELSE st.pressed_keys[k]]]

\* if msg.type == 'note_on': remember when a key is pressed down
OnNoteOn(st, m) ==
    IF m.note \notin DOMAIN st.pressed_keys
    THEN [st EXCEPT !.pressed_keys =
            [k \in DOMAIN st.pressed_keys \cup {m.note} |->
                IF k = m.note THEN st.total_sec ELSE st.pressed_keys[k]]]
    ELSE st

\* One iteration of `for msg in midi`
ExtractStep_body(st, m) ==
    LET t == [st EXCEPT !.total_sec = FAdd(st.total_sec, m.time)]
    IN  Eval(CASE m.type = "note_on" -> OnNoteOn(t, m)
               [] m.type = "note_off" -> OnNoteOff(t, m)
               [] OTHER -> t)

ExtractStep(st, m) == Call("ExtractStep", <<st, m>>)

\* The whole loop over a message sequence
RECURSIVE ExtractAll(_, _)
ExtractAll(st, msgs) ==
    IF msgs = << >> THEN st
    ELSE Apply1(LAMBDA next : ExtractAll(next, Tail(msgs)), ExtractStep(st, Head(msgs)))

\* sorted(set(note.key for note in self.notes))
RECURSIVE SortedSeq(_)
SortedSeq(S) ==
    IF S = {} THEN << >>
    ELSE LET lo == CHOOSE x \in S : \A y \in S : x <= y
         IN  <<lo>> \o SortedSeq(S \ {lo})

UsedKeys(ns) == SortedSeq({ns[i].key : i \in 1..Len(ns)})

\* "Common measurements": the column layout, or the exception the division
\* by len(self.used_keys) raises
Layout_body(w, h, used) ==
    IF Len(used) = 0 THEN [error |-> "ZeroDivisionError"]
    ELSE LET W == FromInt(w)
             cw == FDiv(FSub(W, FMul(FMul(W, SIDE_MARGIN), FromInt(2))),
                        FromInt(Len(used)))
         IN  [error |-> "none",
              column_width |-> cw,
              note_width |-> FMul(cw, NOTE_WIDTH),
              line_width |-> FMul(cw, LINE_WIDTH),
              columns |-> Eval([i \in 1..Len(used) |->
                             FAdd(FMul(W, SIDE_MARGIN),
                                  FMul(FAdd(FromInt(i - 1), Lit(1, 2)), cw))]),
              fade_point |-> FTrunc(FMul(FSub(FromInt(1),
                                              FDiv(BOTTOM_MARGIN, FromInt(2))),
                                         FromInt(h))),
              hit_line |-> FTrunc(FMul(FSub(FromInt(1), BOTTOM_MARGIN), FromInt(h)))]

Layout(w, h, used) == Call("Layout", <<w, h, used>>)

-----------------------------------------------------------------------------
(* Painter: a record of the fields of self.  The stores of draw_static and  *)
(* draw_notes into the image are all within 0..255, where the builds        *)
(* agree; StoreCast names the build.                                        *)

\* Python's None
None == << >>

StoreCast == "wrap"

\* self.colors: Color.fromhex of KEYS.values(), in order
KEYS ==
    << <<255, 0, 0, OPAQUE>>, <<250, 108, 32, OPAQUE>>, <<255, 147, 0, OPAQUE>>,
       <<255, 192, 0, OPAQUE>>, <<255, 254, 0, OPAQUE>>, <<131, 255, 0, OPAQUE>>,
       <<0, 255, 116, OPAQUE>>, <<0, 255, 229, OPAQUE>>, <<0, 43, 255, OPAQUE>>,
       <<128, 0, 255, OPAQUE>>, <<174, 94, 255, OPAQUE>>, <<255, 0, 255, OPAQUE>> >>

\* self.colors[key % 12]
KeyColor(key) == KEYS[(key % 12) + 1]

\* Color(*rgb, a) of an rgb constant and a float a
ColorOf(rgb, a) == Color(FromInt(rgb[1]), FromInt(rgb[2]), FromInt(rgb[3]), a)

\* draw_static: int(min(self.column_width / 1.5, height * BOTTOM_MARGIN * FONT_HEIGHT))
FontSize(self) ==
    LET a == FDiv(self.column_width, Lit(15, 10))
        b == FMul(FMul(FromInt(self.height), BOTTOM_MARGIN), FONT_HEIGHT)
    IN  FTrunc(IF FLt(b, a) THEN b ELSE a)

\* FONTS
FONTS == <<"arial.ttf", "DejaVuSans.ttf", "LiberationSans-Regular.ttf">>

\* draw_static, `for f in [self.font] if self.font else FONTS` from the i-th
\* font of fs on: the first font ImageFont.truetype loads, an OSError moves
\* on to the next, any other exception leaves draw_static; and the `else`
\* of the loop, ImageFont.load_default(), when no font is left
RECURSIVE TryFonts(_, _, _, _)
TryFonts(pil, fs, size, i) ==
    IF i > Len(fs) THEN [error |-> "none", font |-> load_default(pil)]
    ELSE LET r == truetype(pil, fs[i], size)
         IN  IF r.error = "OSError" THEN TryFonts(pil, fs, size, i + 1) ELSE r

\* `if self.font`: the truth of self.font, which is None or the name given
\* with --font, in a tuple of its own; None and the empty name are false
FontGiven(self) == self.font # None /\ self.font # <<"">>

\* draw_static, "try to load fonts until it works": the font loaded, None
\* without show_text, or the exception raised
LoadFont(self, pil) ==
    IF self.show_text
    THEN TryFonts(pil, IF FontGiven(self) THEN self.font ELSE FONTS, FontSize(self), 1)
    ELSE [error |-> "none", font |-> None]

\* draw_static, the body of `for i, x in enumerate(self.columns)` for the
\* columns from the i-th on: the vertical key line, then the letter
RECURSIVE KeyLines(_, _, _, _)
KeyLines(self, arr, i, font) ==
    IF i > Len(self.columns) THEN arr
    ELSE LET key == self.used_keys[i]
             Lettered(a) ==
                 IF self.show_text
                 THEN text(a, <<self.columns[i],
                                FMul(FSub(One, FDiv(BOTTOM_MARGIN, FromInt(4))),
                                     FromInt(self.height))>>,
                           Letters[(key % 12) + 1], KeyColor(key), font)
                 ELSE a
             Then(a) == Apply1(LAMBDA b : KeyLines(self, b, i + 1, font), Lettered(a))
         IN  Apply1(Then,
                    vline(arr, self.columns[i], FZero, FromInt(self.fade_point - 1),
                          self.line_width,
                          opacity(KeyColor(key), FromInt(LINE_OPACITY)),
                          StoreCast))

\* Painter.draw_static: the font, then key lines and letters, then the
\* hit-line; or the exception raised when the font is loaded
draw_static_body(self, pil) ==
    LET loaded == LoadFont(self, pil)
    IN  IF loaded.error # "none" THEN [error |-> loaded.error]
        ELSE [error |-> "none",
              arr |-> Apply1(LAMBDA arr :
                         hline(arr, FromInt(self.hit_line), FZero, FromInt(self.width),
                               self.line_width,
                               opacity(ColorOf(HIT_LINE_COLOR, FromInt(OPAQUE)),
                                       FromInt(LINE_OPACITY)),
                               StoreCast),
                         KeyLines(self, Image(self.height, self.width, <<0, 0, 0, 0>>),
                                  1, loaded.font))]

draw_static(self, pil) == Call("draw_static", <<self, pil>>)

\* Painter.__init__ on the messages msgs of the MIDI file, with the Pillow
\* of the machine: the Painter, or the exception raised
Painter_body(msgs, w, h, speed, show_text, masked, font, pil) ==
    LET ns == ExtractAll(ExtractStart, msgs).notes
        used == UsedKeys(ns)
        lay == Layout(w, h, used)
        self == [width |-> w, height |-> h, fall_time |-> speed,
                 show_text |-> show_text, masked |-> masked, font |-> font,
                 notes |-> ns, used_keys |-> used,
                 column_width |-> lay.column_width, note_width |-> lay.note_width,
                 line_width |-> lay.line_width, columns |-> lay.columns,
                 fade_point |-> lay.fade_point, hit_line |-> lay.hit_line]
        Built(static) ==
            IF static.error # "none" THEN [error |-> static.error]
            ELSE [error |-> "none",
                  self |-> Eval([f \in DOMAIN self \cup {"background", "mask_timestamp", "mask"} |->
                              CASE f = "background" -> static.arr
                                [] f = "mask_timestamp" -> FromInt(-1)
                                [] f = "mask" -> None
                                [] OTHER -> self[f]])]
    IN  IF lay.error # "none" THEN [error |-> lay.error]
        ELSE Apply1(Built, draw_static(self, pil))

Painter(msgs, w, h, speed, show_text, masked, font, pil) ==
    Call("Painter", <<msgs, w, h, speed, show_text, masked, font, pil>>)

\* draw_notes, lines 285 and 299-306: where the note is at `seconds`, and
\* its hitstate, of line 304 (linear) and of line 306; or the exception
\* raised: by a division by zero, of hitline / self.fall_time or of
\* ... / (HIT_EFFECT_TIME * pps), or by a `** 2` beyond the floats
NoteGeometry_body(self, note, seconds, libm) ==
    IF self.fall_time = 0 THEN [error |-> "ZeroDivisionError"]
    ELSE LET pps == FDiv(FromInt(self.hit_line), FromInt(self.fall_time))
             hitpoint == FSub(FromInt(self.hit_line), FDiv(self.line_width, FromInt(2)))
             bottom == FAdd(FMul(note.start, FNeg(pps)), FMul(seconds, pps))
             top == FAdd(FMul(note.stop, FNeg(pps)), FMul(seconds, pps))
             per == FMul(FromInt(HIT_EFFECT_TIME), pps)
             linear == FSub(One, FDiv(FSub(bottom, hitpoint), per))
             hitstate == IF FLt(FZero, linear) THEN FPow2(linear, libm) ELSE FZero
         IN  IF IsZero(per) THEN [error |-> "ZeroDivisionError"]
             ELSE IF hitstate = FOverflowError THEN [error |-> "OverflowError"]
             ELSE [error |-> "none", bottom |-> bottom, top |-> top,
                   linear |-> linear, hitstate |-> hitstate]

NoteGeometry(self, note, seconds, libm) ==
    Call("NoteGeometry", <<self, note, seconds, libm>>)

\* if 0 < hitstate < 1
HitEffect(hitstate) == FLt(FZero, hitstate) /\ FLt(hitstate, One)

\* A variant that draws the note whatever its top
BarVisibleAnyTop(bottom, top, fadepoint) == FLt(FZero, bottom)

\* if bottom > 0 and top < fadepoint
BarVisible(bottom, top, fadepoint) ==
    FLt(FZero, bottom) /\ FLt(top, FromInt(fadepoint))

\* min(fadepoint, bottom)
MinFade(fadepoint, bottom) ==
    IF FLt(bottom, FromInt(fadepoint)) THEN bottom ELSE FromInt(fadepoint)

\* draw_notes, the body of `for note in self.notes` for a note of the
\* column at x with the color `color`.  st is the image and the shapes drawn
\* so far, and the exception raised, if any.
DrawNote_body(self, st, x, color, note, seconds, libm) ==
    LET g == NoteGeometry(self, note, seconds, libm)
        hit == HitEffect(g.hitstate)
        note_color ==
            IF hit
            THEN blend(color, ColorOf(HIT_EFFECT_COLOR,
                                      FMul(g.hitstate, FromInt(OPAQUE)))).color
            ELSE color
        bar == BarVisible(g.bottom, g.top, self.fade_point)
        arr1 == IF bar
                THEN vline(st.arr, x, g.top, MinFade(self.fade_point, g.bottom),
                           self.note_width, note_color, StoreCast)
                ELSE st.arr
        w == FSub(self.column_width,
                  FMul(FSub(self.column_width, self.note_width), g.hitstate))
        h == FAdd(self.line_width,
                  FMul(FMul(FromInt(2), self.line_width), g.hitstate))
        arr2(a) == IF hit
                   THEN box(a, x, FromInt(self.hit_line), w, h,
                            opacity(ColorOf(HIT_LINE_COLOR, FromInt(OPAQUE)),
                                    FMul(FromInt(OPAQUE), g.hitstate)),
                            StoreCast)
                   ELSE a
    IN  IF g.error # "none" THEN [st EXCEPT !.error = g.error]
        ELSE [arr |-> Apply1(arr2, arr1),
              shapes |-> st.shapes \o (IF bar THEN <<"vline">> ELSE << >>)
                                   \o (IF hit THEN <<"box">> ELSE << >>),
              error |-> "none"]

DrawNote(self, st, x, color, note, seconds, libm) ==
    Call("DrawNote", <<self, st, x, color, note, seconds, libm>>)

\* draw_notes: the notes of the loops `for i, x in enumerate(self.columns)`,
\* `for note in self.notes`, in order, from column i on: <<i, note>> each
RECURSIVE ColumnNotes(_, _)
ColumnNotes(self, i) ==
    IF i > Len(self.columns) THEN << >>
    ELSE LET mine == SelectSeq(self.notes, LAMBDA n : n.key = self.used_keys[i])
         IN  [j \in 1..Len(mine) |-> <<i, mine[j]>>] \o ColumnNotes(self, i + 1)

RECURSIVE DrawColumns(_, _, _, _, _)
DrawColumns(self, st, todo, seconds, libm) ==
    IF todo = << >> \/ st.error # "none" THEN st
    ELSE Apply1(LAMBDA next : DrawColumns(self, next, Tail(todo), seconds, libm),
                DrawNote(self, st, self.columns[todo[1][1]],
                         KeyColor(self.used_keys[todo[1][1]]), todo[1][2], seconds,
                         libm))

\* alpha = int(OPAQUE * (line - hitline) / (fadepoint - hitline))
FadeAlpha(self, line) ==
    FTrunc(FDiv(FromInt(OPAQUE * (line - self.hit_line)),
                FromInt(self.fade_point - self.hit_line)))

\* draw_notes: "make everything fade out below the hit-line"
FadeOut_body(self, arr) ==
    LET alpha == Eval([line \in self.hit_line..(self.fade_point - 1) |->
                         FadeAlpha(self, line)])
    IN  Eval([y \in DOMAIN arr |-> [x \in DOMAIN arr[y] |->
            IF y \in DOMAIN alpha
            THEN LET px == arr[y][x]
                 IN  <<px[1], px[2], px[3],
                       px[4] - (IF px[4] < alpha[y] THEN px[4] ELSE alpha[y])>>
            ELSE arr[y][x]]])

FadeOut(self, arr) == Call("FadeOut", <<self, arr>>)

\* arr[:, :, 3] / 255
AlphaMask_body(arr) ==
    LET quot == Eval([a \in UNION {{arr[y][x][4] : x \in DOMAIN arr[y]} : y \in DOMAIN arr} |->
                        NpDiv(FromInt(a), FromInt(255))])
    IN  Eval([y \in DOMAIN arr |-> [x \in DOMAIN arr[y] |-> quot[arr[y][x][4]]]])

AlphaMask(arr) == Call("AlphaMask", <<arr>>)

\* arr[:, :, :3]
RGB(arr) ==
    Eval([y \in DOMAIN arr |-> [x \in DOMAIN arr[y] |->
        <<arr[y][x][1], arr[y][x][2], arr[y][x][3]>>]])

\* What a method of the Painter that raised `error` leaves
Raised(self, error) == [self |-> self, error |-> error, ret |-> None, runs |-> << >>]

\* Painter.draw_notes(seconds): self after the call, the frame returned or
\* the exception raised, and what the run did (the shapes drawn, the image
\* before and after the fade)
draw_notes_body(self, seconds, libm) ==
    LET Faded(st, faded) ==
            [self |-> IF self.masked
                      THEN [self EXCEPT !.mask_timestamp = seconds,
                                        !.mask = AlphaMask(faded)]
                      ELSE self,
             error |-> "none",
             ret |-> RGB(IF self.masked THEN faded ELSE flatten(faded)),
             runs |-> <<[seconds |-> seconds, shapes |-> st.shapes,
                         prefade |-> st.arr, postfade |-> faded]>>]
        Drawn(st) ==
            IF st.error # "none" THEN Raised(self, st.error)
            ELSE Apply1(LAMBDA faded : Faded(st, faded), FadeOut(self, st.arr))
    IN  IF self.fall_time = 0 THEN Raised(self, "ZeroDivisionError")
        ELSE Apply1(Drawn,
                    DrawColumns(self, [arr |-> self.background, shapes |-> << >>,
                                       error |-> "none"],
                                ColumnNotes(self, 1), seconds, libm))

\* A variant that draws on self.background itself, not on a copy of it
draw_notesInPlace(self, seconds, libm) ==
    LET d == Call("draw_notes", <<self, seconds, libm>>)
    IN  IF d.error # "none" THEN d
        ELSE [d EXCEPT !.self.background =
                         IF self.masked THEN d.runs[1].postfade
                         ELSE flatten(d.runs[1].postfade)]

draw_notes(self, seconds, libm) == Call("draw_notes", <<self, seconds, libm>>)

\* A variant that renders again whatever the timestamp of the mask
draw_maskAlwaysRenders(self, t, libm) ==
    LET d == draw_notes(self, t, libm)
    IN  IF d.error # "none" THEN d ELSE [d EXCEPT !.ret = d.self.mask]

\* Painter.draw_mask(t)
draw_mask_body(self, t, libm) ==
    IF FNe(self.mask_timestamp, t)
    THEN LET d == draw_notes(self, t, libm)
         IN  IF d.error # "none" THEN d ELSE [d EXCEPT !.ret = d.self.mask]
    ELSE [self |-> self, error |-> "none", ret |-> self.mask, runs |-> << >>]

draw_mask(self, t, libm) == Call("draw_mask", <<self, t, libm>>)

-----------------------------------------------------------------------------
(* The runs of the program: the MIDI files with the frame sizes, the       *)
(* speeds, the fonts, the machines and the timestamps of the requests      *)

On(key, time) == Msg("note_on", key, time)
Off(key, time) == Msg("note_off", key, time)
OneKey == <<On(60, FZero), Off(60, Lit(1, 2))>>
TwoKeys == <<On(60, FZero), On(61, Lit(1, 2)), Off(60, Lit(1, 2)), Off(61, FZero)>>
Scenes == {<<OneKey, 20, 10>>, <<TwoKeys, 20, 20>>, <<OneKey, 20, 1>>}
Speeds == {0, 2}
Fonts == {None}
\* The libraries: one that rounds every square down, and one that rounds
\* up, but down for the note of key 60 of TwoKeys at 2 seconds
Flipped ==
    LET self == Painter(TwoKeys, 20, 20, 2, FALSE, FALSE, None, FreeTypePillow).self
    IN  {NoteGeometry(self, self.notes[k], FromInt(2), RoundsDown).linear :
            k \in {i \in 1..Len(self.notes) : self.notes[i].key = 60}}
Libms == {RoundsDown, [default |-> "up", flip |-> Flipped]}

\* The arguments of one run of the program, with the Pillow and the C
\* libraries of its machines
Setup(sc, speed, show_text, masked, font, pil, libms) ==
    [msgs |-> sc[1], width |-> sc[2], height |-> sc[3], speed |-> speed,
     show_text |-> show_text, masked |-> masked, font |-> font, pil |-> pil,
     libms |-> libms]

\* The runs.  Every scene at the speeds of Speeds, masked and not: without
\* text, where Pillow is not called, with every library; with text, with
\* every Pillow.  The scene of one key at the default speed of 10 and,
\* falling upwards, at -4.  And two runs with --font, naming a font the
\* machine lacks and naming none (--font '').  The set is computed as a
\* call is.
Setups_body ==
    {Setup(sc, speed, FALSE, masked, font, FreeTypePillow, Libms) :
        sc \in Scenes, speed \in Speeds, masked \in BOOLEAN, font \in Fonts}
    \cup {Setup(sc, speed, TRUE, masked, font, pil, {RoundsDown}) :
            sc \in Scenes, speed \in Speeds, masked \in BOOLEAN, font \in Fonts,
            pil \in Pillows}
    \cup {Setup(<<OneKey, 20, 10>>, speed, FALSE, masked, None, FreeTypePillow,
                {RoundsDown}) : speed \in {10, -4}, masked \in BOOLEAN}
    \cup {Setup(<<TwoKeys, 20, 20>>, 2, TRUE, FALSE, font, FreeTypePillow,
                {RoundsDown}) : font \in {<<"arial.ttf">>, <<"">>}}

Setups == Call("Setups", << >>)

\* -2.0 ** 600, a time so far back that the `** 2` of a hitstate overflows
LongBefore == FNeg(FRound(1, <<1>>, 600, FALSE))
\* The timestamps: 11.625 is past stop + fall_time + HIT_EFFECT_TIME of the
\* note of OneKey at speed 10, whose bar is then still above the fade-point
Times_body == {FromInt(-1), FromInt(2), Lit(93, 8), FromInt(13), LongBefore}

Times == Call("Times", << >>)

-----------------------------------------------------------------------------
(* The call of the function named f on the argument values a               *)

Call(f, args) ==
    CHOOSE r \in {
        CASE f = "FRound" -> FRound_body(a[1], a[2], a[3], a[4])
          [] f = "FromInt" -> FromInt_body(a[1])
          [] f = "FAdd" -> FAdd_body(a[1], a[2])
          [] f = "FMul" -> FMul_body(a[1], a[2])
          [] f = "FDiv" -> FDiv_body(a[1], a[2])
          [] f = "FCmp" -> FCmp_body(a[1], a[2])
          [] f = "FTrunc" -> FTrunc_body(a[1])
          [] f = "FCeil" -> FCeil_body(a[1])
          [] f = "BlendAlpha" -> BlendAlpha_body(a[1], a[2])
          [] f = "blend" -> blend_body(a[1], a[2])
          [] f = "OverPixel" -> OverPixel_body(a[1], a[2], a[3])
          [] f = "over" -> over_body(a[1], a[2], a[3], a[4], a[5], a[6], a[7])
          [] f = "RectCalls" -> RectCalls_body(a[1], a[2], a[3], a[4], a[5])
          [] f = "RectError" -> RectError_body(a[1], a[2], a[3], a[4], a[5])
          [] f = "RectDerived" -> RectDerived_body(a[1], a[2], a[3], a[4], a[5])
          [] f = "rectangle" -> rectangle_body(a[1], a[2], a[3], a[4], a[5], a[6], a[7])
          [] f = "flatten" -> flatten_body(a[1])
          [] f = "ExtractStep" -> ExtractStep_body(a[1], a[2])
          [] f = "Layout" -> Layout_body(a[1], a[2], a[3])
          [] f = "Setups" -> Setups_body
          [] f = "Times" -> Times_body
          [] f = "draw_static" -> draw_static_body(a[1], a[2])
          [] f = "Painter" -> Painter_body(a[1], a[2], a[3], a[4], a[5], a[6], a[7], a[8])
          [] f = "NoteGeometry" -> NoteGeometry_body(a[1], a[2], a[3], a[4])
          [] f = "DrawNote" -> DrawNote_body(a[1], a[2], a[3], a[4], a[5], a[6], a[7])
          [] f = "FadeOut" -> FadeOut_body(a[1], a[2])
          [] f = "AlphaMask" -> AlphaMask_body(a[1])
          [] f = "draw_notes" -> draw_notes_body(a[1], a[2], a[3])
          [] f = "draw_mask" -> draw_mask_body(a[1], a[2], a[3])
          [] f = "FPow2" -> FPow2_body(a[1], a[2])
          [] f = "text" -> text_body(a[1], a[2], a[3], a[4], a[5])
        : a \in {args}} : TRUE


-----------------------------------------------------------------------------
(* State                                                                   *)

VARIABLES
    pc,            \* where the program is
    err,           \* the exception that ended the constructor, or "none"
    width, height, \* Painter(width, height)
    total_sec,     \* running sum of the message times
    pressed_keys,  \* {key: start_sec}
    notes,         \* self.notes
    msg,           \* the message the loop read last
    nmsgs,         \* how many messages the loop has read
    layout,        \* the "common measurements", once computed
    call,          \* a call of a Color or AntialiasedDraw method: its arguments
    ret,           \* what the call returned or raised
    arr,           \* AntialiasedDraw.arr
    arr0,          \* arr as it was before the call
    painter,       \* the Painter: the fields of self
    history,       \* of the last request to the Painter: the runs of draw_notes
                   \* it made, the mask cache before it; and the timestamp of
                   \* the last run of draw_notes so far
    libm           \* the C library of the process: how its pow rounds

extractVars == <<err, width, height, total_sec, pressed_keys, notes, msg, nmsgs, layout>>
rasterVars == <<call, ret, arr, arr0>>
painterVars == <<painter, history, libm>>
vars == <<pc, extractVars, rasterVars, painterVars>>

NoCall == [op |-> "none"]
NoRet == [error |-> "unset"]
NoImage == << >>

NoMsg == Msg("none", -1, FZero)
NoLayout == [error |-> "unset"]
NoPainter == [error |-> "unset"]
NoLibm == [default |-> "unset"]
NoHistory == [runs |-> << >>, before |-> << >>, last_run |-> << >>]

-----------------------------------------------------------------------------
(* The constructor up to the common measurements, on any message stream    *)

\* Bounds of the message streams
MaxMsgs == 4
Keys == {60, 61}
MsgTimes == {FZero, Lit(1, 10)}
Sizes == {<<20, 10>>}

Messages ==
    {Msg(ty, k, t) : ty \in {"note_on", "note_off"}, k \in Keys, t \in MsgTimes}
    \cup {Msg("control_change", -1, t) : t \in MsgTimes}

ExtractInit ==
    /\ pc = "loop"
    /\ err = "none"
    /\ \E sz \in Sizes : width = sz[1] /\ height = sz[2]
    /\ total_sec = FZero
    /\ pressed_keys = << >>
    /\ notes = << >>
    /\ msg = NoMsg
    /\ nmsgs = 0
    /\ layout = NoLayout
    /\ call = NoCall /\ ret = NoRet /\ arr = NoImage /\ arr0 = NoImage
    /\ painter = NoPainter /\ history = NoHistory /\ libm = NoLibm

\* for msg in midi: one message
ReadMsg ==
    /\ pc = "loop"
    /\ nmsgs < MaxMsgs
    /\ \E m \in Messages :
         LET st == ExtractStep([total_sec |-> total_sec,
                                pressed_keys |-> pressed_keys,
                                notes |-> notes], m)
         IN  /\ msg' = m
             /\ total_sec' = st.total_sec
             /\ pressed_keys' = st.pressed_keys
             /\ notes' = st.notes
    /\ nmsgs' = nmsgs + 1
    /\ UNCHANGED <<pc, err, width, height, layout, rasterVars, painterVars>>

\* The stream has ended: used_keys and the common measurements
Measure ==
    /\ pc = "loop"
    /\ LET lay == Layout(width, height, UsedKeys(notes))
       IN  IF lay.error = "none"
           THEN pc' = "measured" /\ err' = err /\ layout' = lay
           ELSE pc' = "raised" /\ err' = lay.error /\ layout' = layout
    /\ UNCHANGED <<width, height, total_sec, pressed_keys, notes, msg, nmsgs, rasterVars, painterVars>>

ExtractNext == ReadMsg \/ Measure

ExtractSpec == ExtractInit /\ [][ExtractNext]_vars

-----------------------------------------------------------------------------
(* Claims about the note extractor                                         *)

\* [a.start, a.stop) and [b.start, b.stop) have a point in common
Overlap(a, b) ==
    LET lo == IF FLt(a.start, b.start) THEN b.start ELSE a.start
        hi == IF FLt(a.stop, b.stop) THEN a.stop ELSE b.stop
    IN  FLt(lo, hi)

\* C1: every emitted Note has start <= stop, and no two emitted Notes of the
\* same key have overlapping [start, stop) intervals.
C1_NotesDisjoint ==
    /\ \A i \in 1..Len(notes) : FLe(notes[i].start, notes[i].stop)
    /\ \A i, j \in 1..Len(notes) :
         i < j /\ notes[i].key = notes[j].key => ~Overlap(notes[i], notes[j])

\* C1's case: the stream has ended with two notes of positive length on one key
C1_Witness ==
    /\ pc = "measured"
    /\ \E i, j \in 1..Len(notes) :
         /\ i < j /\ notes[i].key = notes[j].key
         /\ FLt(notes[i].start, notes[i].stop)
         /\ FLt(notes[j].start, notes[j].stop)

\* C4: a stream that yields no Note ends the constructor with a
\* ConfigurationError raised by a guard, and no Painter.
C4_EmptyRaisesConfigurationError ==
    pc # "loop" /\ notes = << >> => pc = "raised" /\ err = "ConfigurationError"

\* C5: a note-on for a held key and a note-off for a key that is not held
\* change neither the held keys nor the notes; a note-off for a held key
\* appends exactly Note(key, recorded start, current time) and releases the key.
C5_StepEffects ==
    [][nmsgs' = nmsgs + 1 =>
        LET k == msg'.note IN
        /\ total_sec' = FAdd(total_sec, msg'.time)
        /\ msg'.type = "note_on" /\ k \in DOMAIN pressed_keys =>
             /\ pressed_keys'[k] = pressed_keys[k]
             /\ pressed_keys' = pressed_keys
             /\ notes' = notes
        /\ msg'.type = "note_off" /\ k \notin DOMAIN pressed_keys =>
             /\ pressed_keys' = pressed_keys
             /\ notes' = notes
        /\ msg'.type = "note_off" /\ k \in DOMAIN pressed_keys =>
             /\ notes' = Append(notes, Note(k, pressed_keys[k], total_sec'))
             /\ DOMAIN pressed_keys' = DOMAIN pressed_keys \ {k}
             /\ \A h \in DOMAIN pressed_keys' : pressed_keys'[h] = pressed_keys[h]
    ]_vars

\* C5's case: the last message was a note-on for a key held since earlier,
\* after a note of that key had been emitted
C5_Witness ==
    /\ msg.type = "note_on"
    /\ msg.note \in DOMAIN pressed_keys
    /\ FLt(pressed_keys[msg.note], total_sec)
    /\ \E i \in 1..Len(notes) : notes[i].key = msg.note

-----------------------------------------------------------------------------
(* Color and AntialiasedDraw as pure functions: one call on inputs drawn   *)
(* from bounded sets                                                       *)

Channels == {0, 11, 255}
Alphas == {0, 3, 128, 255}
BaseColors == {<<r, g, b, a>> : r \in Channels, g \in {0, 128}, b \in {60, 255}, a \in Alphas}
Overlays == {<<255, 255, 255, a>> : a \in Alphas} \cup {<<0, 96, 255, a>> : a \in {0, 128}}
Opacities == {FZero, Lit(255, 2), FromInt(LINE_OPACITY), FromInt(OPAQUE)}
Xs == {FZero, Lit(1, 2), FromInt(2)}
Ys == {FZero, Lit(1, 2), FromInt(1), Lit(5, 2)}
Inks == {<<255, 0, 0, OPAQUE>>, <<255, 255, 255, LINE_OPACITY>>}
Images == {Image(3, 3, <<0, 0, 0, 0>>), Image(3, 3, <<10, 20, 30, 128>>)}
Casts == {"wrap", "saturate"}

BlendCalls == {[op |-> "blend", self |-> b, other |-> t] : b \in BaseColors, t \in Overlays}
OpacityCalls == {[op |-> "opacity", self |-> b, a |-> a] : b \in Inks, a \in Opacities}
RectangleCalls ==
    {[op |-> "rectangle", left |-> l, top |-> t, right |-> r, bottom |-> b,
      color |-> c, cast |-> u] :
        l \in Xs, t \in Ys, r \in Xs, b \in Ys, c \in Inks, u \in Casts}

RasterInit ==
    /\ pc = "call"
    /\ \/ call \in BlendCalls \cup OpacityCalls /\ arr = NoImage
       \/ call \in RectangleCalls /\ arr \in Images
    /\ arr0 = arr
    /\ ret = NoRet
    /\ err = "none" /\ width = 0 /\ height = 0 /\ total_sec = FZero
    /\ pressed_keys = << >> /\ notes = << >> /\ msg = NoMsg /\ nmsgs = 0
    /\ layout = NoLayout
    /\ painter = NoPainter /\ history = NoHistory /\ libm = NoLibm

\* self.blend(other)
CallBlend ==
    /\ pc = "call" /\ call.op = "blend"
    /\ LET r == blend(call.self, call.other)
       IN  ret' = [error |-> r.error,
                   derived |-> IF r.error = "none" THEN {r.color} ELSE {}]
    /\ pc' = "returned"
    /\ UNCHANGED <<call, arr, arr0, extractVars, painterVars>>

\* self.opacity(a)
CallOpacity ==
    /\ pc = "call" /\ call.op = "opacity"
    /\ ret' = [error |-> "none", derived |-> {opacity(call.self, call.a)}]
    /\ pc' = "returned"
    /\ UNCHANGED <<call, arr, arr0, extractVars, painterVars>>

\* AntialiasedDraw(arr).rectangle(left, top, right, bottom, color)
CallRectangle ==
    /\ pc = "call" /\ call.op = "rectangle"
    /\ arr' = rectangle(arr, call.left, call.top, call.right, call.bottom,
                        call.color, call.cast)
    /\ ret' = [error |-> RectError(call.left, call.top, call.right,
                                    call.bottom, call.color),
               derived |-> RectDerived(call.left, call.top, call.right,
                                       call.bottom, call.color)]
    /\ pc' = "returned"
    /\ UNCHANGED <<call, arr0, extractVars, painterVars>>

RasterNext == CallBlend \/ CallOpacity \/ CallRectangle

RasterSpec == RasterInit /\ [][RasterNext]_vars

-----------------------------------------------------------------------------
(* Claims about Color and AntialiasedDraw                                  *)

IsChannel(n) == n \in 0..255

\* C6: blending a fully transparent overlay (a = 0) over any base returns the
\* base unchanged and does not fail.
C6_TransparentOverlayKeepsBase ==
    pc = "returned" /\ call.op = "blend" /\ call.other[4] = 0 =>
        ret.error = "none" /\ ret.derived = {call.self}

\* C7: every Color a derived operation produces (opacity, blend, the colors
\* rectangle dims for thin widths and fringes) has its four channels in 0..255.
C7_DerivedColorsInRange ==
    pc = "returned" => \A c \in ret.derived : \A i \in 1..4 : IsChannel(c[i])

\* C8: a rectangle of zero or negative height or width leaves every pixel of
\* the image as it was and raises nothing.
C8_DegenerateRectangleIsNoOp ==
    /\ pc = "returned" /\ call.op = "rectangle"
    /\ FLe(call.bottom, call.top) \/ FLe(call.right, call.left)
    => ret.error = "none" /\ arr = arr0

-----------------------------------------------------------------------------
(* The Painter under frame and mask requests                               *)

\* painter = Painter(options.midi, width, height, speed=options.speed,
\*                   show_text=not options.no_text, masked=masked, font=options.font)
\* An exception of the constructor ends the program.
PainterInit ==
    /\ \E s \in Setups :
         \E made \in {Painter(s.msgs, s.width, s.height, s.speed, s.show_text,
                              s.masked, s.font, s.pil)} :
             /\ libm \in s.libms
             /\ IF made.error = "none"
                THEN pc = "constructed" /\ painter = made.self /\ ret = NoRet
                ELSE pc = "raised" /\ painter = NoPainter
                     /\ ret = [error |-> made.error, value |-> None]
    /\ history = NoHistory
    /\ call = NoCall /\ arr = NoImage /\ arr0 = NoImage
    /\ err = "none" /\ width = 0 /\ height = 0 /\ total_sec = FZero
    /\ pressed_keys = << >> /\ notes = << >> /\ msg = NoMsg /\ nmsgs = 0
    /\ layout = NoLayout

\* What the request `op` at t did, d being what the method returned or
\* raised; an exception ends the program
Served(op, t, d) ==
    /\ pc' = IF d.error = "none" THEN "served" ELSE "raised"
    /\ painter' = d.self
    /\ call' = [op |-> op, t |-> t]
    /\ ret' = [error |-> d.error, value |-> d.ret]
    /\ history' = [runs |-> d.runs,
                   before |-> [mask_timestamp |-> painter.mask_timestamp,
                               mask |-> painter.mask,
                               last_run |-> history.last_run],
                   last_run |-> IF d.runs = << >> THEN history.last_run ELSE <<t>>]
    /\ UNCHANGED <<arr, arr0, extractVars, libm>>

\* VideoClip(painter.draw_notes): the frame at t
CallDrawNotes ==
    /\ pc \in {"constructed", "served"}
    /\ \E t \in Times : Served("draw_notes", t, draw_notes(painter, t, libm))

\* if masked: VideoClip(painter.draw_mask, ismask=True): the mask at t
CallDrawMask ==
    /\ pc \in {"constructed", "served"}
    /\ painter.masked
    /\ \E t \in Times : Served("draw_mask", t, draw_mask(painter, t, libm))

PainterNext == CallDrawNotes \/ CallDrawMask

PainterSpec == PainterInit /\ [][PainterNext]_vars

-----------------------------------------------------------------------------
(* Claims about the Painter's requests                                     *)

\* A mask: one value in [0, 1] for every pixel of the frame
ValidMask(m) ==
    /\ m # None
    /\ DOMAIN m = 0..(painter.height - 1)
    /\ \A y \in DOMAIN m :
         /\ DOMAIN m[y] = 0..(painter.width - 1)
         /\ \A x \in DOMAIN m[y] : FLe(FZero, m[y][x]) /\ FLe(m[y][x], One)

\* The request served last is draw_mask(T), in masked mode
MaskRequest == pc = "served" /\ painter.masked /\ call.op = "draw_mask"

\* The last run of draw_notes before the request served last was for its T
RenderedBefore == history.before.last_run = <<call.t>>

\* C2: in masked mode draw_mask(T), when the most recent render was for T,
\* runs no further render and returns the mask of that render, tagged T.
C2_CachedMaskIsReturned ==
    MaskRequest /\ RenderedBefore =>
        /\ history.runs = << >>
        /\ ret.value = history.before.mask
        /\ ret.value = draw_notes(painter, call.t, libm).self.mask
        /\ ValidMask(ret.value)
        /\ painter.mask_timestamp = call.t

C2_Witness == MaskRequest /\ RenderedBefore /\ ret.value # None

\* C3: draw_mask(T) not preceded by a render for T, on any masked Painter,
\* the one just constructed included, runs the render for T exactly once and
\* returns a valid mask tagged T.
C3_MaskRequestRenders ==
    MaskRequest /\ ~RenderedBefore =>
        /\ Len(history.runs) = 1
        /\ history.runs[1].seconds = call.t
        /\ ValidMask(ret.value)
        /\ painter.mask_timestamp = call.t

\* C9: after the fade-out of draw_notes a pixel of a row strictly between the
\* hit-line and the fade-point whose alpha was nonzero has a strictly smaller
\* alpha, and every pixel of the fade-point row has alpha 0.
C9_FadeOutReachesZero ==
    pc = "served" /\ history.runs # << >> =>
        LET pre == history.runs[1].prefade
            post == history.runs[1].postfade
        IN  \A y \in DOMAIN pre : \A x \in DOMAIN pre[y] :
              /\ painter.hit_line < y /\ y < painter.fade_point /\ pre[y][x][4] # 0
                    => post[y][x][4] < pre[y][x][4]
              /\ y = painter.fade_point => post[y][x][4] = 0

\* stop + fall_time + HIT_EFFECT_TIME of every note is at most t
PastHitEffect(self, t) ==
    \A i \in 1..Len(self.notes) :
        FLe(FAdd(self.notes[i].stop, FromInt(self.fall_time + HIT_EFFECT_TIME)), t)

\* stop + fall_time * fade_point / hit_line + HIT_EFFECT_TIME of every note
\* is at most t: the time a bar takes to the fade-point, not to the hit-line
PastFadePoint(self, t) ==
    \A i \in 1..Len(self.notes) :
        FLe(FAdd(FAdd(self.notes[i].stop,
                      FDiv(FMul(FromInt(self.fall_time), FromInt(self.fade_point)),
                           FromInt(self.hit_line))),
                 FromInt(HIT_EFFECT_TIME)), t)

\* No note bar and no flash box was drawn by the request served last
NothingMoves ==
    history.runs[1].shapes = << >> /\ history.runs[1].prefade = painter.background

\* C10 as stated: for t beyond stop + fall_time + HIT_EFFECT_TIME of every
\* note draw_notes(t) draws no bar and no flash box, and the frame is
\* identical to the static background.
C10_FarFrameIsBackground ==
    pc = "served" /\ call.op = "draw_notes" /\ PastHitEffect(painter, call.t) =>
        NothingMoves /\ ret.value = RGB(painter.background)

\* draw_notes(t) was requested, of a Painter with a positive fall-time and a
\* hit-line below row 0, for a t past the fade-point time of every note
FarRequest ==
    /\ pc \in {"served", "raised"} /\ call.op = "draw_notes"
    /\ painter.fall_time > 0 /\ painter.hit_line > 0
    /\ PastFadePoint(painter, call.t)

\* C10: with a positive fall-time and a hit-line below row 0, draw_notes(t)
\* for t at least stop + fall_time * fade_point / hit_line + HIT_EFFECT_TIME
\* of every note returns a frame and draws no bar and no flash box; the frame
\* is the colors of the static background in masked mode, with the mask the
\* alpha of the background faded out below the hit-line; otherwise it is the
\* background faded out below the hit-line and flattened, each color c of a
\* pixel of alpha a becoming c - min(c, 255 - a).
C10_FarFrameIsFadedBackground ==
    FarRequest =>
        /\ pc = "served"
        /\ NothingMoves
        /\ ret.value = IF painter.masked
                       THEN RGB(painter.background)
                       ELSE RGB(flatten(FadeOut(painter, painter.background)))
        /\ painter.masked =>
              painter.mask = AlphaMask(FadeOut(painter, painter.background))

C10_Witness ==
    /\ FarRequest /\ pc = "served"
    /\ ~painter.masked /\ ret.value # RGB(painter.background)
    /\ painter.fall_time > 2

\* The mask cache of the Painter: what draw_notes assigns in masked mode
MaskCache == {"mask", "mask_timestamp"}

\* The Painter with the mask cache of the constructor
EmptyCache(self) == [self EXCEPT !.mask_timestamp = FromInt(-1), !.mask = None]

\* C11: a request, draw_notes(t) or draw_mask(t), whatever requests came
\* before it, leaves the static background, the notes, the used keys, the
\* columns and every other field of the Painter but mask and mask_timestamp
\* as they were; and what draw_notes(T) returns with a mask in the cache, the
\* frame or the exception, is what the Painter returns for T with the mask
\* cache of the constructor.
C11_RequestsKeepStaticState ==
    [][pc' \in {"served", "raised"} =>
          /\ DOMAIN painter' = DOMAIN painter
          /\ \A f \in DOMAIN painter \ MaskCache : painter'[f] = painter[f]
          /\ call'.op = "draw_notes" /\ EmptyCache(painter) # painter =>
                LET d == draw_notes(EmptyCache(painter), call'.t, libm)
                IN  ret'.value = d.ret /\ ret'.error = d.error]_vars

\* draw_notes(T) served after a render for another timestamp, which left its
\* mask in the cache
C11_Witness ==
    /\ pc = "served" /\ call.op = "draw_notes" /\ painter.masked
    /\ history.before.last_run # << >> /\ history.before.last_run # <<call.t>>
    /\ history.before.mask # None /\ history.before.mask # painter.mask
    /\ history.before.mask_timestamp # painter.mask_timestamp

====
